---- MODULE Spec2Model ----
(***************************************************************************)
(* The system slice of the web frontend (systemSlice.ts): one aggregate    *)
(* `state`, reduced synchronously, one dispatched action at a time, by the *)
(* slice's reducers (preference setters) and extraReducers (socket events).*)
(***************************************************************************)
EXTENDS Integers, Sequences, FiniteSets, TLC

VARIABLES
    state,           \* the SystemState aggregate held by the store
    last,            \* history: the action reduced most recently
    everTerminated,  \* history: sessions for which a terminal queue-item event was reduced
    terminatedSinceStart, \* history: the same, since the last invocation start
    scenario,        \* history: how far the event log so far follows the cancel-race scenario
    numPrefActions,  \* history: number of preference actions dispatched so far
    gate             \* the persisted shape being loaded: raw, migrated, migrated again

vars == <<state, last, everTerminated, terminatedSinceStart, scenario, numPrefActions, gate>>

-----------------------------------------------------------------------------
(* Bounds of the model *)

MaxCancellations == 2
MaxPrefActions == 1
MaxProgressStep == 5

-----------------------------------------------------------------------------
(* Value domains *)

Null == [null |-> TRUE]

Statuses == {"DISCONNECTED", "CONNECTED", "PROCESSING", "LOADING_MODEL"}

SessionIds == {"s1", "s2"}

BatchIds == {"batch_a"}

ProgressImages == {"image_a"}

Orders == {1, 2}

Steps == {0, 1}

TotalSteps == {2}

LogLevels == {"debug", "info"}

Languages == {"en", "de"}

QueueItemStatuses == {"pending", "in_progress", "completed", "canceled", "failed"}

TerminalStatuses == {"completed", "canceled", "failed"}

Range(seq) == {seq[i] : i \in 1..Len(seq)}

-----------------------------------------------------------------------------
(* The completion fraction, in hundredths (0..PercentScale stands for 0..1) *)

PercentScale == 100

calculateStepPercentage(step, total_steps, order) ==
    IF total_steps <= 0 \/ step <= 0
    THEN 0
    ELSE IF step >= total_steps
         THEN PercentScale
         ELSE (step * PercentScale) \div total_steps

-----------------------------------------------------------------------------
(* The slice's initial state *)

initialSystemState ==
    [ _version |-> 1,
      isConnected |-> FALSE,
      shouldConfirmOnDelete |-> TRUE,
      enableImageDebugging |-> FALSE,
      denoiseProgress |-> Null,
      shouldAntialiasProgressImage |-> FALSE,
      consoleLogLevel |-> "debug",
      shouldLogToConsole |-> TRUE,
      language |-> "en",
      shouldUseNSFWChecker |-> FALSE,
      shouldUseWatermarker |-> FALSE,
      shouldEnableInformationalPopovers |-> FALSE,
      status |-> "DISCONNECTED",
      cancellations |-> <<>> ]

-----------------------------------------------------------------------------
(* reducers: the preference setters *)

setShouldConfirmOnDelete(s, payload) == [s EXCEPT !.shouldConfirmOnDelete = payload]

setEnableImageDebugging(s, payload) == [s EXCEPT !.enableImageDebugging = payload]

consoleLogLevelChanged(s, payload) == [s EXCEPT !.consoleLogLevel = payload]

shouldLogToConsoleChanged(s, payload) == [s EXCEPT !.shouldLogToConsole = payload]

shouldAntialiasProgressImageChanged(s, payload) ==
    [s EXCEPT !.shouldAntialiasProgressImage = payload]

languageChanged(s, payload) == [s EXCEPT !.language = payload]

shouldUseNSFWCheckerChanged(s, payload) == [s EXCEPT !.shouldUseNSFWChecker = payload]

shouldUseWatermarkerChanged_WritesNSFWChecker(s, payload) ==
    [s EXCEPT !.shouldUseNSFWChecker = payload]

shouldUseWatermarkerChanged(s, payload) == [s EXCEPT !.shouldUseWatermarker = payload]

setShouldEnableInformationalPopovers(s, payload) ==
    [s EXCEPT !.shouldEnableInformationalPopovers = payload]

-----------------------------------------------------------------------------
(* extraReducers: the socket events *)

socketConnected(s) ==
    [s EXCEPT !.isConnected = TRUE,
              !.denoiseProgress = Null,
              !.status = "CONNECTED"]

socketDisconnected_ClearsCancellations(s) ==
    [s EXCEPT !.isConnected = FALSE,
              !.denoiseProgress = Null,
              !.status = "DISCONNECTED",
              !.cancellations = <<>>]

socketDisconnected_KeepsIsConnected(s) ==
    [s EXCEPT !.denoiseProgress = Null,
              !.status = "DISCONNECTED"]

socketDisconnected(s) ==
    [s EXCEPT !.isConnected = FALSE,
              !.denoiseProgress = Null,
              !.status = "DISCONNECTED"]

socketInvocationStarted_KeepsCancellations(s) ==
    [s EXCEPT !.denoiseProgress = Null,
              !.status = "PROCESSING"]

socketInvocationStarted(s) ==
    [s EXCEPT !.cancellations = <<>>,
              !.denoiseProgress = Null,
              !.status = "PROCESSING"]

DenoiseProgressOf_PercentageRemaining(data) ==
    [ step |-> data.step,
      total_steps |-> data.total_steps,
      order |-> data.order,
      percentage |->
          PercentScale - calculateStepPercentage(data.step, data.total_steps, data.order),
      progress_image |-> data.progress_image,
      session_id |-> data.graph_execution_state_id,
      batch_id |-> data.queue_batch_id ]

DenoiseProgressOf(data) ==
    [ step |-> data.step,
      total_steps |-> data.total_steps,
      order |-> data.order,
      percentage |-> calculateStepPercentage(data.step, data.total_steps, data.order),
      progress_image |-> data.progress_image,
      session_id |-> data.graph_execution_state_id,
      batch_id |-> data.queue_batch_id ]

socketGeneratorProgress_StatusBeforeGuard(s, data) ==
    IF data.graph_execution_state_id \in Range(s.cancellations)
    THEN [s EXCEPT !.status = "PROCESSING"]
    ELSE [s EXCEPT !.denoiseProgress = DenoiseProgressOf(data),
                   !.status = "PROCESSING"]

socketGeneratorProgress_NoGuard(s, data) ==
    [s EXCEPT !.denoiseProgress = DenoiseProgressOf(data),
              !.status = "PROCESSING"]

socketGeneratorProgress_IgnoresEarlierStep(s, data) ==
    IF data.graph_execution_state_id \in Range(s.cancellations)
    THEN s
    ELSE IF s.denoiseProgress # Null /\ s.denoiseProgress.step > data.step
         THEN [s EXCEPT !.status = "PROCESSING"]
         ELSE [s EXCEPT !.denoiseProgress = DenoiseProgressOf(data),
                        !.status = "PROCESSING"]

socketGeneratorProgress(s, data) ==
    IF data.graph_execution_state_id \in Range(s.cancellations)
    THEN s
    ELSE [s EXCEPT !.denoiseProgress = DenoiseProgressOf(data),
                   !.status = "PROCESSING"]

socketInvocationComplete(s) ==
    [s EXCEPT !.denoiseProgress = Null,
              !.status = "CONNECTED"]

socketGraphExecutionStateComplete(s) ==
    [s EXCEPT !.denoiseProgress = Null,
              !.status = "CONNECTED"]

socketModelLoadStarted_ClearsProgress(s) ==
    [s EXCEPT !.denoiseProgress = Null,
              !.status = "LOADING_MODEL"]

socketModelLoadStarted(s) == [s EXCEPT !.status = "LOADING_MODEL"]

socketModelLoadCompleted_OnlyWhileLoading(s) ==
    IF s.status = "LOADING_MODEL" THEN [s EXCEPT !.status = "CONNECTED"] ELSE s

socketModelLoadCompleted(s) == [s EXCEPT !.status = "CONNECTED"]

socketQueueItemStatusChanged_KeepsProgress(s, data) ==
    IF data.queue_item.status \in TerminalStatuses
    THEN [s EXCEPT !.status = "CONNECTED",
                   !.cancellations = Append(@, data.queue_item.session_id)]
    ELSE s

socketQueueItemStatusChanged_Overwrites(s, data) ==
    IF data.queue_item.status \in TerminalStatuses
    THEN [s EXCEPT !.status = "CONNECTED",
                   !.denoiseProgress = Null,
                   !.cancellations = <<data.queue_item.session_id>>]
    ELSE s

socketQueueItemStatusChanged_InProgressToo(s, data) ==
    IF data.queue_item.status \in TerminalStatuses \cup {"in_progress"}
    THEN [s EXCEPT !.status = "CONNECTED",
                   !.denoiseProgress = Null,
                   !.cancellations = Append(@, data.queue_item.session_id)]
    ELSE s

socketQueueItemStatusChanged_OnlyCanceled(s, data) ==
    IF data.queue_item.status = "canceled"
    THEN [s EXCEPT !.status = "CONNECTED",
                   !.denoiseProgress = Null,
                   !.cancellations = Append(@, data.queue_item.session_id)]
    ELSE s

socketQueueItemStatusChanged(s, data) ==
    IF data.queue_item.status \in TerminalStatuses
    THEN [s EXCEPT !.status = "CONNECTED",
                   !.denoiseProgress = Null,
                   !.cancellations = Append(@, data.queue_item.session_id)]
    ELSE s

-----------------------------------------------------------------------------------------------------------------------------------------------------
(* The actions the store can be handed, with their payloads *)

PreferenceActionTypes ==
    { "setShouldConfirmOnDelete", "setEnableImageDebugging", "consoleLogLevelChanged",
      "shouldLogToConsoleChanged", "shouldAntialiasProgressImageChanged",
      "languageChanged", "shouldUseNSFWCheckerChanged", "shouldUseWatermarkerChanged",
      "setShouldEnableInformationalPopovers" }

GeneratorProgressData ==
    [ step : Steps,
      total_steps : TotalSteps,
      order : Orders,
      progress_image : ProgressImages,
      graph_execution_state_id : SessionIds,
      queue_batch_id : BatchIds ]

QueueItemStatusChangedData ==
    [ queue_item : [status : QueueItemStatuses, session_id : SessionIds] ]

-----------------------------------------------------------------------------
(* The persistence gate: systemPersistConfig and what the store does with it *)

persistDenylist_WithoutCancellations == {"isConnected", "denoiseProgress", "status"}

persistDenylist == {"isConnected", "denoiseProgress", "status", "cancellations"}

migrateSystemState_InvertedTest(s) ==
    IF "_version" \in DOMAIN s
    THEN [k \in DOMAIN s |-> IF k = "_version" THEN 1 ELSE s[k]]
    ELSE s

migrateSystemState_AlwaysStamps(s) ==
    [k \in DOMAIN s \cup {"_version"} |-> IF k = "_version" THEN 1 ELSE s[k]]

migrateSystemState(s) ==
    IF "_version" \notin DOMAIN s
    THEN [k \in DOMAIN s \cup {"_version"} |-> IF k = "_version" THEN 1 ELSE s[k]]
    ELSE s

(* The snapshot written to storage: the slice without the denylisted fields *)
persist(s) == [k \in DOMAIN s \ persistDenylist |-> s[k]]

(* The slice after a restart: the migrated snapshot laid over the initial    *)
(* state, the denylisted fields taken from the initial state in every case.  *)
restore(snapshot) ==
    LET migrated == migrateSystemState(snapshot)
    IN  [k \in DOMAIN initialSystemState |->
            IF k \in DOMAIN migrated /\ k \notin persistDenylist
            THEN migrated[k]
            ELSE initialSystemState[k]]

(* No persisted shape is being loaded *)
NoLoad == [raw |-> Null, migrated |-> Null, remigrated |-> Null]

(* The preference part of a persisted shape *)
PersistedPreferences ==
    [ shouldConfirmOnDelete : BOOLEAN,
      enableImageDebugging : BOOLEAN,
      shouldAntialiasProgressImage : BOOLEAN,
      consoleLogLevel : LogLevels,
      shouldLogToConsole : BOOLEAN,
      language : Languages,
      shouldUseNSFWChecker : BOOLEAN,
      shouldUseWatermarker : BOOLEAN,
      shouldEnableInformationalPopovers : BOOLEAN ]

PersistedVersions == {0, 1, 2}

(* Persisted shapes as storage may hold them: written before the version    *)
(* field existed or with one, and with or without a stale status field.     *)
RawPersistedShapes ==
    LET unversioned ==
            PersistedPreferences
                \cup {p @@ [status |-> "PROCESSING"] : p \in PersistedPreferences}
    IN  unversioned
            \cup {p @@ [_version |-> v] : p \in unversioned, v \in PersistedVersions}

-----------------------------------------------------------------------------
(* History kept beside the store *)

IsTerminalQueueEvent(action) ==
    /\ action.type = "socketQueueItemStatusChanged"
    /\ action.payload.data.queue_item.status \in TerminalStatuses

IsProgressFor(action, sid) ==
    /\ action.type = "socketGeneratorProgress"
    /\ action.payload.data.graph_execution_state_id = sid

NoSession == "none"

OffScenario == [phase |-> -1, session |-> NoSession]

(* The scenario: connect, invocation started, progress for S, queue item canceled *)
(* for S, progress for S, as the whole event log from the initial state.          *)
ScenarioStep(sc, action) ==
    CASE sc.phase = 0 /\ action.type = "socketConnected" -> [sc EXCEPT !.phase = 1]
      [] sc.phase = 1 /\ action.type = "socketInvocationStarted" -> [sc EXCEPT !.phase = 2]
      [] sc.phase = 2 /\ action.type = "socketGeneratorProgress" ->
             [phase |-> 3, session |-> action.payload.data.graph_execution_state_id]
      [] /\ sc.phase = 3
         /\ action.type = "socketQueueItemStatusChanged"
         /\ action.payload.data.queue_item.status = "canceled"
         /\ action.payload.data.queue_item.session_id = sc.session ->
             [sc EXCEPT !.phase = 4]
      [] sc.phase = 4 /\ IsProgressFor(action, sc.session) -> [sc EXCEPT !.phase = 5]
      [] OTHER -> OffScenario

(* What one dispatch adds to the history *)
Record(action) ==
    /\ last' = action
    /\ everTerminated' =
           IF IsTerminalQueueEvent(action)
           THEN everTerminated \cup {action.payload.data.queue_item.session_id}
           ELSE everTerminated
    /\ terminatedSinceStart' =
           CASE action.type = "socketInvocationStarted" -> {}
             [] IsTerminalQueueEvent(action) ->
                    terminatedSinceStart \cup {action.payload.data.queue_item.session_id}
             [] OTHER -> terminatedSinceStart
    /\ scenario' = ScenarioStep(scenario, action)
    /\ numPrefActions' =
           IF action.type \in PreferenceActionTypes
           THEN numPrefActions + 1
           ELSE numPrefActions
    /\ gate' = gate

-----------------------------------------------------------------------------
(* The state machine: one action per case reducer; a dispatch replaces the *)
(* aggregate by the reducer's result in one step.                          *)

Init ==
    /\ state = initialSystemState
    /\ last = [type |-> "@@INIT"]
    /\ everTerminated = {}
    /\ terminatedSinceStart = {}
    /\ scenario = [phase |-> 0, session |-> NoSession]
    /\ numPrefActions = 0
    /\ gate = NoLoad

SetShouldConfirmOnDelete ==
    /\ numPrefActions < MaxPrefActions
    /\ \E v \in BOOLEAN :
        /\ state' = setShouldConfirmOnDelete(state, v)
        /\ Record([type |-> "setShouldConfirmOnDelete", payload |-> v])

SetEnableImageDebugging ==
    /\ numPrefActions < MaxPrefActions
    /\ \E v \in BOOLEAN :
        /\ state' = setEnableImageDebugging(state, v)
        /\ Record([type |-> "setEnableImageDebugging", payload |-> v])

ConsoleLogLevelChanged ==
    /\ numPrefActions < MaxPrefActions
    /\ \E v \in LogLevels :
        /\ state' = consoleLogLevelChanged(state, v)
        /\ Record([type |-> "consoleLogLevelChanged", payload |-> v])

ShouldLogToConsoleChanged ==
    /\ numPrefActions < MaxPrefActions
    /\ \E v \in BOOLEAN :
        /\ state' = shouldLogToConsoleChanged(state, v)
        /\ Record([type |-> "shouldLogToConsoleChanged", payload |-> v])

ShouldAntialiasProgressImageChanged ==
    /\ numPrefActions < MaxPrefActions
    /\ \E v \in BOOLEAN :
        /\ state' = shouldAntialiasProgressImageChanged(state, v)
        /\ Record([type |-> "shouldAntialiasProgressImageChanged", payload |-> v])

LanguageChanged ==
    /\ numPrefActions < MaxPrefActions
    /\ \E v \in Languages :
        /\ state' = languageChanged(state, v)
        /\ Record([type |-> "languageChanged", payload |-> v])

ShouldUseNSFWCheckerChanged ==
    /\ numPrefActions < MaxPrefActions
    /\ \E v \in BOOLEAN :
        /\ state' = shouldUseNSFWCheckerChanged(state, v)
        /\ Record([type |-> "shouldUseNSFWCheckerChanged", payload |-> v])

ShouldUseWatermarkerChanged ==
    /\ numPrefActions < MaxPrefActions
    /\ \E v \in BOOLEAN :
        /\ state' = shouldUseWatermarkerChanged(state, v)
        /\ Record([type |-> "shouldUseWatermarkerChanged", payload |-> v])

SetShouldEnableInformationalPopovers ==
    /\ numPrefActions < MaxPrefActions
    /\ \E v \in BOOLEAN :
        /\ state' = setShouldEnableInformationalPopovers(state, v)
        /\ Record([type |-> "setShouldEnableInformationalPopovers", payload |-> v])

SocketConnected ==
    /\ state' = socketConnected(state)
    /\ Record([type |-> "socketConnected"])

SocketDisconnected ==
    /\ state' = socketDisconnected(state)
    /\ Record([type |-> "socketDisconnected"])

SocketInvocationStarted ==
    /\ state' = socketInvocationStarted(state)
    /\ Record([type |-> "socketInvocationStarted"])

SocketGeneratorProgress ==
    \E data \in GeneratorProgressData :
        /\ state' = socketGeneratorProgress(state, data)
        /\ Record([type |-> "socketGeneratorProgress", payload |-> [data |-> data]])

SocketInvocationComplete ==
    /\ state' = socketInvocationComplete(state)
    /\ Record([type |-> "socketInvocationComplete"])

SocketGraphExecutionStateComplete ==
    /\ state' = socketGraphExecutionStateComplete(state)
    /\ Record([type |-> "socketGraphExecutionStateComplete"])

SocketModelLoadStarted ==
    /\ state' = socketModelLoadStarted(state)
    /\ Record([type |-> "socketModelLoadStarted"])

SocketModelLoadCompleted ==
    /\ state' = socketModelLoadCompleted(state)
    /\ Record([type |-> "socketModelLoadCompleted"])

SocketQueueItemStatusChanged ==
    \E data \in QueueItemStatusChangedData :
        /\ data.queue_item.status \in TerminalStatuses
               => Len(state.cancellations) < MaxCancellations
        /\ state' = socketQueueItemStatusChanged(state, data)
        /\ Record([type |-> "socketQueueItemStatusChanged", payload |-> [data |-> data]])

Next ==
    \/ SetShouldConfirmOnDelete
    \/ SetEnableImageDebugging
    \/ ConsoleLogLevelChanged
    \/ ShouldLogToConsoleChanged
    \/ ShouldAntialiasProgressImageChanged
    \/ LanguageChanged
    \/ ShouldUseNSFWCheckerChanged
    \/ ShouldUseWatermarkerChanged
    \/ SetShouldEnableInformationalPopovers
    \/ SocketConnected
    \/ SocketDisconnected
    \/ SocketInvocationStarted
    \/ SocketGeneratorProgress
    \/ SocketInvocationComplete
    \/ SocketGraphExecutionStateComplete
    \/ SocketModelLoadStarted
    \/ SocketModelLoadCompleted
    \/ SocketQueueItemStatusChanged

Spec == Init /\ [][Next]_vars

-----------------------------------------------------------------------------
(* Vocabulary of the properties *)

ProgressSession(action) == action.payload.data.graph_execution_state_id

QueueSession(action) == action.payload.data.queue_item.session_id

IsNonTerminalQueueEvent(action) ==
    /\ action.type = "socketQueueItemStatusChanged"
    /\ action.payload.data.queue_item.status \notin TerminalStatuses

IsDroppedProgress(action, s) ==
    /\ action.type = "socketGeneratorProgress"
    /\ ProgressSession(action) \in Range(s.cancellations)

HasProgressFor(s, sid) ==
    /\ s.denoiseProgress # Null
    /\ s.denoiseProgress.session_id = sid

-----------------------------------------------------------------------------
(* Properties *)

\* C1: while session S is in cancellations, reducing a generator-progress event
\* for S leaves the whole aggregate as it was: status, denoiseProgress,
\* cancellations, isConnected and every preference field.
C1_RaceGuard ==
    [][IsDroppedProgress(last', state) => state' = state]_vars

\* C1 witness: a progress event for a cancelled session was just reduced while
\* another session's progress record was on display.
C1_Witness ==
    /\ IsDroppedProgress(last, state)
    /\ state.denoiseProgress # Null

\* C2 (as stated): once a terminal queue-item event for S has been reduced, no
\* later generator-progress event for S, whatever was reduced in between, puts
\* a progress record for S into denoiseProgress or turns status to PROCESSING.
C2_FirstTerminalWinsForever ==
    [][\A sid \in everTerminated :
          IsProgressFor(last', sid)
              => /\ ~HasProgressFor(state', sid)
                 /\ state'.status = "PROCESSING" => state.status = "PROCESSING"]_vars

\* C2 (amended): once a terminal queue-item event for S has been reduced, and
\* as long as no InvocationStarted has been reduced since, no generator-progress
\* event for S puts a progress record for S into denoiseProgress or turns
\* status to PROCESSING, whatever else was reduced in between.
C2_FirstTerminalWinsUntilStart ==
    [][\A sid \in terminatedSinceStart :
          IsProgressFor(last', sid)
              => /\ ~HasProgressFor(state', sid)
                 /\ state'.status = "PROCESSING" => state.status = "PROCESSING"]_vars

\* C2 witness: a progress event for a session terminated since the last
\* invocation start was just reduced, with a model load in between.
C2_Witness ==
    /\ last.type = "socketGeneratorProgress"
    /\ ProgressSession(last) \in terminatedSinceStart
    /\ state.status = "LOADING_MODEL"

\* C3 (as stated): status is always one of the four statuses, and
\* denoiseProgress is non-null only when status is PROCESSING.
C3_ProgressOnlyWhileProcessing ==
    /\ state.status \in Statuses
    /\ state.denoiseProgress # Null => state.status = "PROCESSING"

\* C4: whenever denoiseProgress is non-null, its session_id is not in
\* cancellations.
C4_ProgressSessionNotCancelled ==
    state.denoiseProgress # Null
        => state.denoiseProgress.session_id \notin Range(state.cancellations)

\* C4 witness: a progress record on display while some session is cancelled.
C4_Witness ==
    /\ state.denoiseProgress # Null
    /\ state.cancellations # <<>>

\* C5: right after InvocationStarted is reduced, cancellations is empty,
\* denoiseProgress is null and status is PROCESSING, whatever they were before.
C5_InvocationStartedResets ==
    last.type = "socketInvocationStarted"
        => /\ state.cancellations = <<>>
           /\ state.denoiseProgress = Null
           /\ state.status = "PROCESSING"

\* C5 witness: InvocationStarted was just reduced after some session had been
\* terminated.
C5_Witness ==
    /\ last.type = "socketInvocationStarted"
    /\ everTerminated # {}

\* C6: reducing a queue-item event with status completed, canceled or failed
\* for session S yields status CONNECTED, denoiseProgress null and S in
\* cancellations, and keeps every session id that was in cancellations.
C6_TerminalQueueItem ==
    [][IsTerminalQueueEvent(last')
          => /\ state'.status = "CONNECTED"
             /\ state'.denoiseProgress = Null
             /\ QueueSession(last') \in Range(state'.cancellations)
             /\ Range(state.cancellations) \subseteq Range(state'.cancellations)]_vars

\* C6 witness: a terminal queue-item event was just reduced on top of an
\* earlier cancellation of another session.
C6_Witness ==
    /\ IsTerminalQueueEvent(last)
    /\ Cardinality(Range(state.cancellations)) >= 2

\* C7: reducing a queue-item event with status pending or in_progress leaves
\* the whole aggregate as it was; in particular its session id is not added to
\* cancellations.
C7_NonTerminalQueueItemIgnored ==
    [][IsNonTerminalQueueEvent(last') => state' = state]_vars

\* C7 witness: a pending or in_progress queue-item event was just reduced while
\* a progress record was on display.
C7_Witness ==
    /\ IsNonTerminalQueueEvent(last)
    /\ state.denoiseProgress # Null

\* C8: InvocationStarted empties cancellations, a terminal queue-item event
\* appends exactly its session id, and every other event or action leaves
\* cancellations as it was.
C8_CancellationsWriters ==
    [][CASE last'.type = "socketInvocationStarted" ->
                state'.cancellations = <<>>
         [] IsTerminalQueueEvent(last') ->
                state'.cancellations = Append(state.cancellations, QueueSession(last'))
         [] OTHER ->
                state'.cancellations = state.cancellations]_vars

\* C8 witness: a disconnect was just reduced and the cancelled sessions are
\* still recorded.
C8_Witness ==
    /\ last.type = "socketDisconnected"
    /\ state.cancellations # <<>>

\* C9: when the event log from the initial state is exactly connect,
\* InvocationStarted, progress for S, queue item canceled for S, progress for S,
\* the result is status CONNECTED, denoiseProgress null and cancellations
\* holding S alone, and the last progress event changed nothing.
C9_CancelRaceScenario ==
    [][scenario'.phase = 5
          => /\ state' = state
             /\ state'.status = "CONNECTED"
             /\ state'.denoiseProgress = Null
             /\ state'.cancellations = <<scenario'.session>>]_vars

\* C9 witness: the scenario has run to its end.
C9_Witness == scenario.phase = 5

\* C10: the status after an event depends on the event kind alone: connect
\* gives CONNECTED, disconnect DISCONNECTED, InvocationStarted PROCESSING,
\* invocation complete and graph-execution complete CONNECTED, model load
\* started LOADING_MODEL, model load completed CONNECTED; and connect,
\* disconnect, invocation complete and graph-execution complete leave
\* denoiseProgress null.
C10_StatusByEventKind ==
    /\ last.type = "socketConnected"
           => state.status = "CONNECTED" /\ state.denoiseProgress = Null
    /\ last.type = "socketDisconnected"
           => state.status = "DISCONNECTED" /\ state.denoiseProgress = Null
    /\ last.type = "socketInvocationStarted" => state.status = "PROCESSING"
    /\ last.type = "socketInvocationComplete"
           => state.status = "CONNECTED" /\ state.denoiseProgress = Null
    /\ last.type = "socketGraphExecutionStateComplete"
           => state.status = "CONNECTED" /\ state.denoiseProgress = Null
    /\ last.type = "socketModelLoadStarted" => state.status = "LOADING_MODEL"
    /\ last.type = "socketModelLoadCompleted" => state.status = "CONNECTED"

\* C10 witness: model load completed was just reduced in a state that never
\* saw model load started (the socket is not even connected).
C10_Witness ==
    /\ last.type = "socketModelLoadCompleted"
    /\ ~state.isConnected
    /\ state.denoiseProgress # Null


PreferenceFields ==
    { "shouldConfirmOnDelete", "enableImageDebugging", "consoleLogLevel",
      "shouldLogToConsole", "shouldAntialiasProgressImage", "language",
      "shouldUseNSFWChecker", "shouldUseWatermarker",
      "shouldEnableInformationalPopovers" }

\* C11: the snapshot persisted from any reachable state holds none of
\* isConnected, denoiseProgress, status, cancellations; restoring it gives every
\* preference field and _version their pre-persist values and gives the four
\* transient fields their initial values.
C11_PersistRestoreRoundTrip ==
    LET snapshot == persist(state)
        restored == restore(snapshot)
    IN  /\ DOMAIN snapshot =
               DOMAIN state \ {"isConnected", "denoiseProgress", "status", "cancellations"}
        /\ \A k \in PreferenceFields \cup {"_version"} : restored[k] = state[k]
        /\ restored.isConnected = FALSE
        /\ restored.denoiseProgress = Null
        /\ restored.status = "DISCONNECTED"
        /\ restored.cancellations = <<>>

\* C11 witness: a state whose four transient fields and one preference all
\* differ from their initial values.
C11_Witness ==
    /\ state.isConnected
    /\ state.denoiseProgress # Null
    /\ state.status = "PROCESSING"
    /\ state.cancellations # <<>>
    /\ \E k \in PreferenceFields : state[k] # initialSystemState[k]


-----------------------------------------------------------------------------
(* Loading a persisted shape: the migration runs on every load, so a shape   *)
(* is migrated, stored again and migrated again on the load after that.      *)

MigrateInit ==
    /\ state = initialSystemState
    /\ last = [type |-> "@@INIT"]
    /\ everTerminated = {}
    /\ terminatedSinceStart = {}
    /\ scenario = [phase |-> 0, session |-> NoSession]
    /\ numPrefActions = 0
    /\ \E raw \in RawPersistedShapes :
           gate = [raw |-> raw, migrated |-> Null, remigrated |-> Null]

Migrate ==
    /\ gate.migrated = Null
    /\ gate' = [gate EXCEPT !.migrated = migrateSystemState(gate.raw)]
    /\ UNCHANGED <<state, last, everTerminated, terminatedSinceStart, scenario,
                   numPrefActions>>

MigrateAgain ==
    /\ gate.migrated # Null
    /\ gate.remigrated = Null
    /\ gate' = [gate EXCEPT !.remigrated = migrateSystemState(gate.migrated)]
    /\ UNCHANGED <<state, last, everTerminated, terminatedSinceStart, scenario,
                   numPrefActions>>

MigrateNext ==
    \/ Migrate
    \/ MigrateAgain

MigrateSpec == MigrateInit /\ [][MigrateNext]_vars

\* C12: migrateSystemState applied to a persisted shape with no _version field
\* returns a shape with _version = 1 whose other fields are exactly those of
\* the input, with their values, none added and none removed.
C12_MigrateStampsVersionOne ==
    (gate.migrated # Null /\ "_version" \notin DOMAIN gate.raw)
        => /\ DOMAIN gate.migrated = DOMAIN gate.raw \cup {"_version"}
           /\ gate.migrated._version = 1
           /\ \A k \in DOMAIN gate.raw : gate.migrated[k] = gate.raw[k]

\* C12 witness: an unversioned shape, carrying a stale status field and
\* non-default preferences, has been migrated.
C12_Witness ==
    /\ gate.migrated # Null
    /\ "_version" \notin DOMAIN gate.raw
    /\ "status" \in DOMAIN gate.raw
    /\ gate.raw.language = "de"

\* C13: migrating a migrated shape gives the migrated shape again, and a shape
\* that already has a _version field, whatever its value, is returned with
\* every field unchanged.
C13_MigrateIdempotent ==
    /\ gate.remigrated # Null => gate.remigrated = gate.migrated
    /\ (gate.migrated # Null /\ "_version" \in DOMAIN gate.raw)
           => gate.migrated = gate.raw

\* C13 witness: a shape stored with _version 2 has been migrated twice.
C13_Witness ==
    /\ gate.remigrated # Null
    /\ "_version" \in DOMAIN gate.raw
    /\ gate.raw._version = 2


-----------------------------------------------------------------------------
(* Progress reports alone, over a wider range of steps and step counts *)

WideGeneratorProgressData ==
    [ step : 0..MaxProgressStep,
      total_steps : 0..MaxProgressStep,
      order : Orders,
      progress_image : ProgressImages,
      graph_execution_state_id : SessionIds,
      queue_batch_id : BatchIds ]

ReportProgress ==
    \E data \in WideGeneratorProgressData :
        /\ state' = socketGeneratorProgress(state, data)
        /\ Record([type |-> "socketGeneratorProgress", payload |-> [data |-> data]])

ProgressSpec == Init /\ [][ReportProgress]_vars

SameRun(p, q) ==
    /\ p # Null
    /\ q # Null
    /\ p.session_id = q.session_id
    /\ p.total_steps = q.total_steps
    /\ p.order = q.order

-----------------------------------------------------------------------------
(* Further properties of the store *)

TerminalQueueDataFor(sid) ==
    {data \in QueueItemStatusChangedData :
        /\ data.queue_item.session_id = sid
        /\ data.queue_item.status \in TerminalStatuses}

ProgressDataFor(sid) ==
    {data \in GeneratorProgressData : data.graph_execution_state_id = sid}

\* C15: from any reachable state and for any session S not in cancellations,
\* reducing progress for S and then a terminal queue-item event for S gives
\* the same state as reducing them in the other order: status CONNECTED,
\* denoiseProgress null, S in cancellations.
C15_ArrivalOrderIndependence ==
    \A sid \in SessionIds \ Range(state.cancellations) :
        \A progress \in ProgressDataFor(sid), terminal \in TerminalQueueDataFor(sid) :
            LET progressFirst ==
                    socketQueueItemStatusChanged(
                        socketGeneratorProgress(state, progress), terminal)
                terminalFirst ==
                    socketGeneratorProgress(
                        socketQueueItemStatusChanged(state, terminal), progress)
            IN  /\ progressFirst = terminalFirst
                /\ terminalFirst.status = "CONNECTED"
                /\ terminalFirst.denoiseProgress = Null
                /\ sid \in Range(terminalFirst.cancellations)

\* C15 witness: a state in which a session outside cancellations is reporting
\* progress while another session is cancelled and model loading is shown.
C15_Witness ==
    /\ state.denoiseProgress # Null
    /\ state.denoiseProgress.session_id \notin Range(state.cancellations)
    /\ state.cancellations # <<>>
    /\ state.status = "LOADING_MODEL"

\* C16: reducing a generator-progress event for a session outside
\* cancellations, from any prior status, sets status to PROCESSING and replaces
\* denoiseProgress by a record with exactly the event's step, total_steps,
\* order, progress_image, session id and batch id, whatever the previous
\* record was; cancellations and isConnected keep their values.
C16_AcceptedProgressOverwrites ==
    [][(/\ last'.type = "socketGeneratorProgress"
        /\ ProgressSession(last') \notin Range(state.cancellations))
          => /\ state'.status = "PROCESSING"
             /\ state'.denoiseProgress # Null
             /\ state'.denoiseProgress.step = last'.payload.data.step
             /\ state'.denoiseProgress.total_steps = last'.payload.data.total_steps
             /\ state'.denoiseProgress.order = last'.payload.data.order
             /\ state'.denoiseProgress.progress_image = last'.payload.data.progress_image
             /\ state'.denoiseProgress.session_id =
                    last'.payload.data.graph_execution_state_id
             /\ state'.denoiseProgress.batch_id = last'.payload.data.queue_batch_id
             /\ state'.cancellations = state.cancellations
             /\ state'.isConnected = state.isConnected]_vars

\* C16 witness: a progress event was just accepted on a socket that is not
\* connected, with another session cancelled.
C16_Witness ==
    /\ last.type = "socketGeneratorProgress"
    /\ ProgressSession(last) \notin Range(state.cancellations)
    /\ state.cancellations # <<>>
    /\ ~state.isConnected

\* C17: model load started and model load completed change status only:
\* denoiseProgress, cancellations, isConnected, _version and all preference
\* fields keep their values.
C17_ModelLoadChangesStatusOnly ==
    [][last'.type \in {"socketModelLoadStarted", "socketModelLoadCompleted"}
          => state' = [state EXCEPT !.status = state'.status]]_vars

\* C17 witness: model load started was just reduced with a progress record on
\* display and a session cancelled.
C17_Witness ==
    /\ last.type = "socketModelLoadStarted"
    /\ state.denoiseProgress # Null
    /\ state.cancellations # <<>>

\* C18 (as stated): no session id occurs in cancellations more than once.
C18_CancellationsHasNoDuplicates ==
    \A i, j \in 1..Len(state.cancellations) :
        state.cancellations[i] = state.cancellations[j] => i = j

(* The field each preference action writes *)
PreferenceFieldOf(type) ==
    CASE type = "setShouldConfirmOnDelete" -> "shouldConfirmOnDelete"
      [] type = "setEnableImageDebugging" -> "enableImageDebugging"
      [] type = "consoleLogLevelChanged" -> "consoleLogLevel"
      [] type = "shouldLogToConsoleChanged" -> "shouldLogToConsole"
      [] type = "shouldAntialiasProgressImageChanged" -> "shouldAntialiasProgressImage"
      [] type = "languageChanged" -> "language"
      [] type = "shouldUseNSFWCheckerChanged" -> "shouldUseNSFWChecker"
      [] type = "shouldUseWatermarkerChanged" -> "shouldUseWatermarker"
      [] type = "setShouldEnableInformationalPopovers" ->
             "shouldEnableInformationalPopovers"

\* C19: a preference action changes its own preference field to its payload and
\* nothing else; a socket event changes no preference field and not _version;
\* _version is 1 in every reachable state.
C19_DurableTransientSeparation ==
    /\ [](state._version = 1)
    /\ [][IF last'.type \in PreferenceActionTypes
          THEN state' = [state EXCEPT ![PreferenceFieldOf(last'.type)] = last'.payload]
          ELSE \A k \in PreferenceFields \cup {"_version"} : state'[k] = state[k]]_vars

\* C19 witness: a preference action just changed its field away from the
\* initial value while the store was processing with a session cancelled.
C19_Witness ==
    /\ last.type \in PreferenceActionTypes
    /\ state[PreferenceFieldOf(last.type)] # initialSystemState[PreferenceFieldOf(last.type)]
    /\ state.denoiseProgress # Null
    /\ state.cancellations # <<>>

\* C20: in every reachable state, status DISCONNECTED implies isConnected is
\* false.
C20_DisconnectedMeansNotConnected ==
    state.status = "DISCONNECTED" => ~state.isConnected

\* C20 witness: the socket was connected, work was reported and terminated, and
\* a disconnect was just reduced.
C20_Witness ==
    /\ last.type = "socketDisconnected"
    /\ state.status = "DISCONNECTED"
    /\ everTerminated = SessionIds

====
